---- MODULE Spec2Model ----
(***************************************************************************)
(* Model of meta_dataloader/TCGA.py: task discovery (get_TCGA_task_ids),   *)
(* the task catalog (TCGAMeta) and task materialization (TCGATask).        *)
(*                                                                         *)
(* A clinical table is a record: whether read_csv can parse the file, the  *)
(* set of its column names, the dtype pandas gives its attribute columns   *)
(* and its rows.  A cell value is NaN (missing) or a category 1..NumVals.  *)
(* The file <i>_clinicalMatrix is the i-th entry of the directory listing, *)
(* so its cancer type, filename.split('_')[0], is i.                       *)
(***************************************************************************)
EXTENDS Integers, Sequences, FiniteSets, TLC

\* ---------------------------------------------------------------- bounds
NumIds == 2
NumVals == 2
MaxRows == 2
MaxSamples == 2
MaxMin == 1
MaxFiles == 2

\* ------------------------------------------------------------ data model
NaN == 0
SampleIds == 1..NumIds
Values == 0..NumVals
Dtypes == {"object", "float64"}
TaskVariables == <<"a", "b">>
Columns == {"sampleID", "a", "b"}

Range(s) == {s[i] : i \in DOMAIN s}
SeqsUpTo(S, n) == UNION {[1..k -> S] : k \in 0..n}

\* row p (0-based) of the expression store f['dataset']
ExpressionRow(p) == <<10 + p>>

\* --------------------------------------------------------------- pandas
HasColumn(matrix, c) == c \in matrix.columns
\* Series.notnull()
NotNull(v) == v # NaN
\* matrix[name] as a sequence of cells
Column(matrix, name) == [i \in DOMAIN matrix.rows |-> matrix.rows[i][name]]
\* series[mask]
RECURSIVE Masked(_, _)
Masked(series, mask) ==
    IF series = <<>> THEN <<>>
    ELSE IF mask[1] THEN <<series[1]>> \o Masked(Tail(series), Tail(mask))
    ELSE Masked(Tail(series), Tail(mask))

\* sorted distinct values of a set of integers, ascending
RECURSIVE SortedSeq(_)
SortedSeq(S) ==
    IF S = {} THEN <<>>
    ELSE LET lo == CHOOSE x \in S : \A y \in S : x <= y
         IN <<lo>> \o SortedSeq(S \ {lo})

\* distinct values in order of first appearance
RECURSIVE AppearanceSeq(_)
AppearanceSeq(s) ==
    IF s = <<>> THEN <<>>
    ELSE LET init == AppearanceSeq(SubSeq(s, 1, Len(s) - 1))
             last == s[Len(s)]
         IN IF last \in Range(init) THEN init ELSE Append(init, last)

\* Series.astype('category').cat.categories of a mask-filtered column
Categories(filtered) == SortedSeq(Range(filtered) \ {NaN})

\* .cat.codes: zero-based index into the categories, -1 for a missing cell
Code(v, categories) ==
    IF v \in Range(categories)
    THEN (CHOOSE k \in DOMAIN categories : categories[k] = v) - 1
    ELSE -1

\* list.index(x): zero-based first match, -1 stands for the ValueError
Index(list, x) ==
    IF x \in Range(list)
    THEN (CHOOSE k \in DOMAIN list :
              list[k] = x /\ \A j \in DOMAIN list : list[j] = x => k <= j) - 1
    ELSE -1

\* tuple comparison of (index, label) pairs used by sorted()
PairLeq(p, q) == p[1] < q[1] \/ (p[1] = q[1] /\ p[2] <= q[2])

RECURSIVE Insert(_, _)
Insert(p, s) ==
    IF s = <<>> THEN <<p>>
    ELSE IF PairLeq(p, s[1]) THEN <<p>> \o s
    ELSE <<s[1]>> \o Insert(p, Tail(s))

RECURSIVE InsertionSort(_)
InsertionSort(s) ==
    IF s = <<>> THEN <<>> ELSE Insert(s[1], InsertionSort(Tail(s)))

\* sorted(zip(indices_to_load, labels))
Sorted(pairs) == InsertionSort(pairs)

\* ------------------------------------------------------------- variables
VARIABLES
    all_sample_ids,         \* lines of the all_sample_ids file
    min_samples_per_class,  \* threshold handed to TCGAMeta
    dir,                    \* os.listdir(clinicalMatrices), one table per file
    meta,                   \* the TCGAMeta object
    task                    \* the TCGATask object built last

vars == <<all_sample_ids, min_samples_per_class, dir, meta, task>>

\* ------------------------------------------- get_TCGA_task_ids, per table
\* the KeyError of matrix[task_variable] or matrix['sampleID'] in the try
KeyErrorRaised(matrix, task_variable) ==
    ~HasColumn(matrix, task_variable) \/ ~HasColumn(matrix, "sampleID")

\* set(potential_sample_ids).intersection(all_sample_ids)
TaskSampleIds(matrix, task_variable, sample_ids) ==
    LET present == [i \in DOMAIN matrix.rows |->
                        NotNull(matrix.rows[i][task_variable])]
    IN Range(Masked(Column(matrix, "sampleID"), present)) \cap Range(sample_ids)

\* matrix[task_variable][matrix['sampleID'].isin(task_sample_ids)]
CountedCells(matrix, task_variable, sample_ids) ==
    LET tsi == TaskSampleIds(matrix, task_variable, sample_ids)
        isin == [i \in DOMAIN matrix.rows |-> matrix.rows[i].sampleID \in tsi]
    IN Masked(Column(matrix, task_variable), isin)

\* Counter(cells): a present value v is the key <<"val", v>>.  A missing cell
\* is a key too: in an object column every missing cell is the one np.nan
\* object, so they share the key <<"nan", 0>>; a float64 column yields a new
\* float per cell and nan # nan, so the i-th cell has its own key <<"nan", i>>.
CounterOf(cells, dtype) ==
    LET nanCells == {i \in DOMAIN cells : cells[i] = NaN}
        nanKeys == IF dtype = "float64" THEN {<<"nan", i>> : i \in nanCells}
                   ELSE IF nanCells = {} THEN {} ELSE {<<"nan", 0>>}
        keys == {<<"val", v>> : v \in Range(cells) \ {NaN}} \cup nanKeys
    IN [k \in keys |->
           IF k[1] = "val" THEN Cardinality({i \in DOMAIN cells : cells[i] = k[2]})
           ELSE IF dtype = "float64" THEN 1
           ELSE Cardinality(nanCells)]

NumSamplesPerLabel(matrix, task_variable, sample_ids) ==
    CounterOf(CountedCells(matrix, task_variable, sample_ids), matrix.dtype)

\* num_samples > min_samples_per_class
InRange(num_samples, m) == num_samples > m

\* num_samples_per_class_is_in_range and is_not_one_class
TaskAccepted(matrix, task_variable, sample_ids, m) ==
    LET num_samples_per_label == NumSamplesPerLabel(matrix, task_variable, sample_ids)
    IN /\ \A k \in DOMAIN num_samples_per_label :
              InRange(num_samples_per_label[k], m)
       /\ Cardinality(DOMAIN num_samples_per_label) > 1

OnKeyErrorBreak(rest) == <<>>
\* except KeyError: continue -- the remaining variables are still evaluated
OnKeyError(rest) == rest

\* for task_variable in task_variables, from the j-th variable on
RECURSIVE VariableLoop(_, _, _, _, _)
VariableLoop(matrix, cancer, j, sample_ids, m) ==
    IF j > Len(TaskVariables) THEN <<>>
    ELSE LET task_variable == TaskVariables[j]
             rest == VariableLoop(matrix, cancer, j + 1, sample_ids, m)
         IN IF KeyErrorRaised(matrix, task_variable) THEN OnKeyError(rest)
            ELSE IF TaskAccepted(matrix, task_variable, sample_ids, m)
                 THEN <<<<task_variable, cancer>>>> \o rest
                 ELSE rest

\* for filename in os.listdir(...), from the i-th file on.  pd.read_csv is
\* outside every try: a file it cannot parse raises out of the function.
RECURSIVE FileLoop(_, _, _, _)
FileLoop(files, i, sample_ids, m) ==
    IF i > Len(files) THEN [raised |-> FALSE, task_ids |-> <<>>]
    ELSE IF ~files[i].parsable THEN [raised |-> TRUE, task_ids |-> <<>>]
    ELSE LET rest == FileLoop(files, i + 1, sample_ids, m)
         IN IF rest.raised THEN rest
            ELSE [raised |-> FALSE,
                  task_ids |-> VariableLoop(files[i], i, 1, sample_ids, m)
                                   \o rest.task_ids]

get_TCGA_task_ids(files, sample_ids, m) == FileLoop(files, 1, sample_ids, m)

\* ------------------------------------------------------ TCGATask.__init__
AvailableElementsIsinOnly(matrix, task_variable, sample_ids) ==
    [i \in DOMAIN matrix.rows |-> matrix.rows[i].sampleID \in Range(sample_ids)]
AvailableElementsNotNullOnly(matrix, task_variable, sample_ids) ==
    [i \in DOMAIN matrix.rows |-> NotNull(matrix.rows[i][task_variable])]
\* attribute.notnull() & matrix['sampleID'].isin(self._all_sample_ids)
AvailableElements(matrix, task_variable, sample_ids) ==
    [i \in DOMAIN matrix.rows |->
        /\ NotNull(matrix.rows[i][task_variable])
        /\ matrix.rows[i].sampleID \in Range(sample_ids)]

Zip(xs, ys) == [i \in DOMAIN xs |-> <<xs[i], ys[i]>>]

\* f['dataset'][:] -- the whole store, indexed by the 0-based row position
BulkRead(sample_ids) == [p \in 0..(Len(sample_ids) - 1) |-> ExpressionRow(p)]
\* self._data[np.array(list(indices_to_load), dtype=int), :]
PreloadedRows(data, indices) == [i \in DOMAIN indices |-> data[indices[i]]]

\* h5py takes an index list only in increasing order without repeats and
\* raises TypeError("Indexing elements must be in increasing order") otherwise
SelectionAccepted(indices) ==
    \A i \in DOMAIN indices : i > 1 => indices[i - 1] < indices[i]
\* f['dataset'][indices_to_load, :] for an accepted selection
LazyRows(indices) == [i \in DOMAIN indices |-> ExpressionRow(indices[i])]

Failed(task_id, exception) ==
    [status |-> exception, id |-> task_id, sample_ids |-> <<>>,
     indices_to_load |-> <<>>, labels |-> <<>>, categories |-> <<>>,
     num_classes |-> 0, samples |-> <<>>, input_size |-> 0]

NoTask == Failed(<<>>, "none")

CategoriesByAppearance(filtered) == AppearanceSeq(filtered)
\* filtered_attribute.categories.tolist()
TaskCategories(filtered) == Categories(filtered)

SortedNoSort(pairs) == pairs
\* sorted(zip(indices_to_load, self._labels))
SortedPairs(pairs) == Sorted(pairs)

TCGATask(task_id, preloaded, files, all_ids) ==
    LET task_variable == task_id[1]
        cancer == task_id[2]
    IN
    IF cancer \notin DOMAIN files THEN Failed(task_id, "FileNotFoundError")
    ELSE IF ~files[cancer].parsable THEN Failed(task_id, "ParserError")
    ELSE IF ~HasColumn(files[cancer], "sampleID")
            \/ ~HasColumn(files[cancer], task_variable)
    THEN Failed(task_id, "KeyError")
    ELSE
    LET matrix == files[cancer]
        available_elements == AvailableElements(matrix, task_variable, all_ids)
        sample_ids == Masked(Column(matrix, "sampleID"), available_elements)
        filtered_attribute == Masked(Column(matrix, task_variable), available_elements)
        categories == TaskCategories(filtered_attribute)
        labels == [i \in DOMAIN filtered_attribute |->
                       Code(filtered_attribute[i], categories)]
        indices_to_load == [i \in DOMAIN sample_ids |-> Index(all_ids, sample_ids[i])]
    IN
    \* list.index raises ValueError for a sample id that is not in the list
    IF \E i \in DOMAIN indices_to_load : indices_to_load[i] = -1
    THEN Failed(task_id, "LookupError")
    \* zip(*sorted(zip([], []))) is empty: unpacking it into two names raises
    ELSE IF indices_to_load = <<>> THEN Failed(task_id, "ValueError")
    ELSE
    LET sorted == SortedPairs(Zip(indices_to_load, labels))
        sorted_indices == [i \in DOMAIN sorted |-> sorted[i][1]]
        sorted_labels == [i \in DOMAIN sorted |-> sorted[i][2]]
        built(samples) ==
            [status |-> "ok", id |-> task_id, sample_ids |-> sample_ids,
             indices_to_load |-> sorted_indices, labels |-> sorted_labels,
             categories |-> categories, num_classes |-> Len(categories),
             samples |-> samples, input_size |-> Len(samples[1])]
    IN
    IF preloaded
    THEN built(PreloadedRows(BulkRead(all_ids), sorted_indices))
    ELSE IF ~SelectionAccepted(sorted_indices) THEN Failed(task_id, "TypeError")
    ELSE built(LazyRows(sorted_indices))

\* TCGATask.__len__: self._samples.shape[0]
TaskLen(t) == Len(t.samples)
\* TCGATask.__getitem__ without transforms
TaskGetItem(t, index) == <<t.samples[index + 1], t.labels[index + 1]>>

\* ---------------------------------------------------------------- inputs
\* The code only compares sample ids for equality, so the ids of the global
\* list are named in order of first appearance: 1, then 2, ... (a list may
\* repeat an id, and an id of a table need not be in the list).
SampleLists ==
    {s \in SeqsUpTo(SampleIds, MaxSamples) :
        \A i \in DOMAIN s : \A x \in 1..(s[i] - 1) : \E j \in 1..(i - 1) : s[j] = x}

Row(id, a, b) == [sampleID |-> id, a |-> a, b |-> b]

\* one table with the column a, any rows
RichTables ==
    {[parsable |-> TRUE, columns |-> {"sampleID", "a"}, dtype |-> d, rows |-> r] :
        d \in Dtypes,
        r \in SeqsUpTo({Row(id, v, NaN) : id \in SampleIds, v \in Values}, MaxRows)}

Unparsable == [parsable |-> FALSE, columns |-> {}, dtype |-> "object", rows |-> <<>>]

\* tables with any set of columns over two fixed rows
PlainTables ==
    {Unparsable} \cup
    {[parsable |-> TRUE, columns |-> c, dtype |-> "object",
      rows |-> <<Row(1, 1, 2), Row(2, 2, 1)>>] : c \in SUBSET Columns}

Directories ==
    {<<t>> : t \in RichTables} \cup SeqsUpTo(PlainTables, MaxFiles)

TaskIdSpace == {<<v, c>> : v \in Range(TaskVariables), c \in 1..MaxFiles}

\* ----------------------------------------------------------------- model
Init ==
    /\ all_sample_ids \in SampleLists
    /\ min_samples_per_class \in 0..MaxMin
    /\ dir \in Directories
    /\ meta = [status |-> "none", task_ids |-> <<>>, preloaded |-> FALSE]
    /\ task = NoTask

\* TCGAMeta.__init__(preload=...)
MetaInit(preload) ==
    /\ meta.status = "none"
    /\ LET found == get_TCGA_task_ids(dir, all_sample_ids, min_samples_per_class)
       IN meta' = IF found.raised
                  THEN [status |-> "raised", task_ids |-> <<>>, preloaded |-> FALSE]
                  ELSE [status |-> "ready", task_ids |-> found.task_ids,
                        preloaded |-> preload]
    /\ UNCHANGED <<all_sample_ids, min_samples_per_class, dir, task>>

\* TCGAMeta.__getitem__(index)
MetaGetItem(index) ==
    /\ meta.status = "ready"
    /\ index \in 0..(Len(meta.task_ids) - 1)
    /\ task' = TCGATask(meta.task_ids[index + 1], meta.preloaded, dir, all_sample_ids)
    /\ UNCHANGED <<all_sample_ids, min_samples_per_class, dir, meta>>

\* TCGATask(task_id, preloaded=...) built directly by a caller for the
\* clinical table of one of the files
TaskInit(task_id, preloaded) ==
    /\ task_id[2] \in DOMAIN dir
    /\ task' = TCGATask(task_id, preloaded, dir, all_sample_ids)
    /\ UNCHANGED <<all_sample_ids, min_samples_per_class, dir, meta>>

Next ==
    \/ \E preload \in BOOLEAN : MetaInit(preload)
    \/ \E index \in 0..(MaxFiles * Len(TaskVariables) - 1) : MetaGetItem(index)
    \/ \E task_id \in TaskIdSpace, preloaded \in BOOLEAN : TaskInit(task_id, preloaded)

Spec == Init /\ [][Next]_vars

\* a caller that only builds tasks: TCGATask(task_id, ...) on the same inputs
MaterializeNext ==
    \E task_id \in TaskIdSpace, preloaded \in BOOLEAN : TaskInit(task_id, preloaded)

MaterializeSpec == Init /\ [][MaterializeNext]_vars

\* a caller that only builds the catalog: TCGAMeta(...) on the same inputs
DiscoverNext == \E preload \in BOOLEAN : MetaInit(preload)

DiscoverSpec == Init /\ [][DiscoverNext]_vars


\* ------------------------------------------------- what the claims state
\* rows of a table kept by the filter of materialization: value present and
\* sampleID in the global list
Retained(matrix, v) ==
    {i \in DOMAIN matrix.rows :
        /\ matrix.rows[i][v] # NaN
        /\ \E k \in DOMAIN all_sample_ids : all_sample_ids[k] = matrix.rows[i].sampleID}

RetainedValues(matrix, v) == {matrix.rows[i][v] : i \in Retained(matrix, v)}

\* 0-based position of the first occurrence of id in the global list
FirstPosition(id) ==
    CHOOSE p \in 0..(Len(all_sample_ids) - 1) :
        /\ all_sample_ids[p + 1] = id
        /\ \A q \in 0..(p - 1) : all_sample_ids[q + 1] # id

\* rank of a value among the retained values
RankOf(x, matrix, v) == Cardinality({y \in RetainedValues(matrix, v) : y < x})

Readable(matrix, v) ==
    matrix.parsable /\ "sampleID" \in matrix.columns /\ v \in matrix.columns

\* the acceptance rule as specified: counts over retained rows by raw value
RuleAccepts(matrix, v) ==
    /\ \A x \in RetainedValues(matrix, v) :
           Cardinality({i \in Retained(matrix, v) : matrix.rows[i][v] = x})
               > min_samples_per_class
    /\ Cardinality(RetainedValues(matrix, v)) >= 2

InCatalog(task_id) == \E k \in DOMAIN meta.task_ids : meta.task_ids[k] = task_id

TaskTable == dir[task.id[2]]
TaskVariable == task.id[1]

\* C1: a TaskId (variable, cancer_type) whose column exists is in the catalog
\* returned by discovery if and only if, over the rows with a present value
\* and a sampleID in the global list, every category has more than
\* min_samples_per_class rows and there are at least 2 categories.
C1_AcceptanceRule ==
    meta.status = "ready" =>
        \A c \in DOMAIN dir : \A j \in DOMAIN TaskVariables :
            Readable(dir[c], TaskVariables[j]) =>
                (InCatalog(<<TaskVariables[j], c>>) <=> RuleAccepts(dir[c], TaskVariables[j]))

\* C2: a task materialized for a TaskId of the catalog has at least 2 classes
\* and every label code occurs on more than min_samples_per_class rows.
C2_CatalogTaskHasClasses ==
    (meta.status = "ready" /\ task.status = "ok" /\ InCatalog(task.id)) =>
        /\ task.num_classes >= 2
        /\ \A code \in Range(task.labels) :
               Cardinality({i \in DOMAIN task.labels : task.labels[i] = code})
                   > min_samples_per_class

\* C3: in a materialized task the number of labels, the number of feature
\* rows, len(task) and the number of clinical rows kept by the filter are all
\* equal, and every label code is in [0, num_classes).
C3_TaskShape ==
    task.status = "ok" =>
        LET n == Cardinality(Retained(TaskTable, TaskVariable))
        IN /\ Len(task.labels) = n
           /\ Len(task.samples) = n
           /\ TaskLen(task) = n
           /\ \A index \in 0..(TaskLen(task) - 1) :
                  /\ TaskGetItem(task, index)[2] >= 0
                  /\ TaskGetItem(task, index)[2] < task.num_classes

C3_Witness ==
    /\ task.status = "ok"
    /\ TaskLen(task) >= 1
    /\ TaskLen(task) < Len(TaskTable.rows)

\* C4: every sample retained by a materialized task has a sampleID in the
\* global list and a present value, and the position lookup never fails.
C4_RetainedSamples ==
    /\ task.status # "LookupError"
    /\ task.status = "ok" =>
           /\ \A i \in DOMAIN task.sample_ids :
                  \E k \in DOMAIN all_sample_ids : all_sample_ids[k] = task.sample_ids[i]
           /\ Len(task.sample_ids) = Cardinality(Retained(TaskTable, TaskVariable))
           /\ \A i \in DOMAIN task.labels : task.labels[i] # -1
           /\ \A k \in DOMAIN task.categories : task.categories[k] # NaN

C4_Witness ==
    /\ task.status = "ok"
    /\ \E i \in DOMAIN TaskTable.rows :
           /\ TaskTable.rows[i][TaskVariable] # NaN
           /\ \A k \in DOMAIN all_sample_ids :
                  all_sample_ids[k] # TaskTable.rows[i].sampleID

\* C5: feature row i is the store row at the i-th smallest row position of
\* the retained samples (positions never decrease with i) and label i is the
\* code of a clinical row whose sampleID resolved to that position: the
\* (position, label) pairs of the task are those of the retained rows.
C5_OrderingAndAlignment ==
    task.status = "ok" =>
        /\ \A i \in DOMAIN task.indices_to_load : \A j \in DOMAIN task.indices_to_load :
               i < j => task.indices_to_load[i] <= task.indices_to_load[j]
        /\ \A i \in DOMAIN task.samples :
               task.samples[i] = ExpressionRow(task.indices_to_load[i])
        /\ \A p \in 0..(Len(all_sample_ids) - 1) : \A code \in 0..NumVals :
               Cardinality({i \in DOMAIN task.labels :
                               task.indices_to_load[i] = p /\ task.labels[i] = code})
               = Cardinality({r \in Retained(TaskTable, TaskVariable) :
                               /\ FirstPosition(TaskTable.rows[r].sampleID) = p
                               /\ RankOf(TaskTable.rows[r][TaskVariable],
                                         TaskTable, TaskVariable) = code})

C5_Witness ==
    /\ task.status = "ok"
    /\ \E r1 \in Retained(TaskTable, TaskVariable) :
       \E r2 \in Retained(TaskTable, TaskVariable) :
           /\ r1 < r2
           /\ FirstPosition(TaskTable.rows[r1].sampleID)
                  > FirstPosition(TaskTable.rows[r2].sampleID)
           /\ TaskTable.rows[r1][TaskVariable] # TaskTable.rows[r2][TaskVariable]

\* C6: the categories of a materialized task are exactly the distinct values
\* of the retained rows, ascending and without duplicates, and a retained
\* row's label code is the zero-based index of its value in that sequence.
C6_LabelEncoding ==
    task.status = "ok" =>
        /\ \A k \in DOMAIN task.categories : \A l \in DOMAIN task.categories :
               k < l => task.categories[k] < task.categories[l]
        /\ Range(task.categories) = RetainedValues(TaskTable, TaskVariable)
        /\ \A p \in 0..(Len(all_sample_ids) - 1) : \A x \in 1..NumVals :
               Cardinality({i \in DOMAIN task.labels :
                               /\ task.indices_to_load[i] = p
                               /\ task.labels[i] + 1 \in DOMAIN task.categories
                               /\ task.categories[task.labels[i] + 1] = x})
               = Cardinality({r \in Retained(TaskTable, TaskVariable) :
                               /\ FirstPosition(TaskTable.rows[r].sampleID) = p
                               /\ TaskTable.rows[r][TaskVariable] = x})

C6_Witness ==
    /\ task.status = "ok"
    /\ task.categories = <<1, 2>>
    /\ \E r1 \in Retained(TaskTable, TaskVariable) :
       \E r2 \in Retained(TaskTable, TaskVariable) :
           /\ r1 < r2
           /\ TaskTable.rows[r1][TaskVariable] = 2
           /\ TaskTable.rows[r2][TaskVariable] = 1
    /\ task.labels \in {<<0, 1>>, <<1, 0>>}

\* C7: materializing from the preloaded matrix and materializing by row-subset
\* read from the backing store give the same task, and one mode succeeds
\* whenever the other does.
C7_AccessModeEquivalence ==
    task.status # "none" =>
        \A preloaded \in BOOLEAN :
            TCGATask(task.id, preloaded, dir, all_sample_ids) = task

\* C8: a variable column missing from a table is skipped without an error:
\* the pair is not in the catalog, and every other variable of the table and
\* every other table is still decided on its own.
C8_MissingColumnSkipped ==
    /\ meta.status = "raised" => \E c \in DOMAIN dir : ~dir[c].parsable
    /\ meta.status = "ready" =>
           \A c \in DOMAIN dir : \A j \in DOMAIN TaskVariables :
               LET v == TaskVariables[j]
               IN InCatalog(<<v, c>>) <=>
                      /\ v \in dir[c].columns
                      /\ "sampleID" \in dir[c].columns
                      /\ TaskAccepted(dir[c], v, all_sample_ids, min_samples_per_class)

C8_Witness ==
    /\ meta.status = "ready"
    /\ Len(dir) = 2
    /\ dir[1].columns = {"sampleID", "b"}
    /\ InCatalog(<<"b", 1>>)
    /\ InCatalog(<<"a", 2>>)
    /\ ~InCatalog(<<"a", 1>>)

\* C9: a malformed clinical table (unparsable, or without the sampleID column)
\* does not abort discovery: it contributes no TaskId and the entries of every
\* other table are still returned.
C9_MalformedTableSkipped ==
    meta.status # "none" =>
        /\ meta.status = "ready"
        /\ \A c \in DOMAIN dir : \A j \in DOMAIN TaskVariables :
               (~dir[c].parsable \/ "sampleID" \notin dir[c].columns)
                   => ~InCatalog(<<TaskVariables[j], c>>)

\* C10: materialization of a TaskId whose column exists does not re-validate:
\* with 0 retained rows it still returns a task, of length 0, with 0 classes
\* and an empty label sequence.
C10_ZeroRowsTask ==
    (/\ task.status # "none"
     /\ Readable(TaskTable, TaskVariable)
     /\ Retained(TaskTable, TaskVariable) = {}) =>
        /\ task.status = "ok"
        /\ TaskLen(task) = 0
        /\ task.num_classes = 0
        /\ task.labels = <<>>

====
